---------------------------- MODULE Spec2Model ----------------------------
(***************************************************************************)
(* A model of the binary heap of src/Heap.py (class Heap).                 *)
(*                                                                         *)
(* The heap object is the pair (_arr, _is_min_heap).  Every public method  *)
(* is one action; the methods' bodies are the operators of the same name,  *)
(* translated statement by statement.  Python lists are zero-indexed, TLA+ *)
(* sequences are one-indexed: Get/Set do the shift, so that the index      *)
(* arithmetic of _left, _right and _parent is the source's.                *)
(*                                                                         *)
(* Besides the object, the state records the last call (op, args, the      *)
(* array before the call, the value returned, the exception raised) and    *)
(* two histories the properties are stated over: the values popped since   *)
(* the heap was last loaded, and the numbers of push and pop calls made    *)
(* since the heap was last started empty.                                  *)
(*                                                                         *)
(* Python lists are objects: the state also says which of the lists the    *)
(* caller can see (the constructor's argument, the list items() returned)  *)
(* are the very object self._arr refers to, and whether a call of the heap *)
(* has ever changed one of them.                                           *)
(*                                                                         *)
(* SpecDown is a second specification, of heapify_down alone, one step per *)
(* activation of the recursive method.                                     *)
(***************************************************************************)
EXTENDS Integers, Sequences, FiniteSets

VARIABLES
    _arr,           \* self._arr: the backing list
    _is_min_heap,   \* self._is_min_heap
    op,             \* the last method called ("__init__" right after construction)
    args,           \* its arguments
    pre,            \* _arr as it was when the call was made (for __init__: the caller's list)
    ret,            \* the value it returned: None or Some(v)
    err,            \* the exception it raised: "none", "IndexError" or "ValueError"
    loaded,         \* _arr as it was after the last mutating call other than pop
    popped,         \* the values returned by the pops made since then, in order
    counting,       \* TRUE while only push and successful pop were called since the heap started empty
    nPush,          \* the push calls made while counting
    nPop,           \* the successful pop calls made while counting
    shared,         \* the caller-visible lists ("arg", "items") that are the object self._arr refers to
    arg_intact,     \* TRUE while the constructor's argument has kept its original contents and order
    items_intact,   \* TRUE while the list last returned by items() has not been changed by the heap
    frame           \* SpecDown: the index of the current activation of heapify_down, and whether it returned

vars == <<_arr, _is_min_heap, op, args, pre, ret, err, loaded, popped, counting, nPush, nPop,
          shared, arg_intact, items_intact, frame>>

---------------------------------------------------------------------------
(* Bounds *)

MaxLen == 5         \* the longest backing list explored
MaxVal == 2         \* the values stored are 0..MaxVal
MaxCount == 4       \* the most push calls counted from an empty start

Vals == 0..MaxVal

\* every list over Vals of length at most n
Lists(n) == UNION {[1..k -> Vals] : k \in 0..n}

---------------------------------------------------------------------------
(* Python values *)

\* Optional[int]: None is the empty sequence, a value v is <<v>>
None == <<>>
Some(v) == <<v>>

\* list read and write at a zero-based index
Get(a, i) == a[i + 1]
Set(a, i, v) == [a EXCEPT ![i + 1] = v]

\* list.pop(): the list without its last element
DropLast(a) == SubSeq(a, 1, Len(a) - 1)

---------------------------------------------------------------------------
(* Helpers of class Heap *)

_left(index) == (index * 2) + 1

_right(index) == (index * 2) + 2

\* Python's // rounds toward minus infinity, as \div does
_parent(index) == (index - 1) \div 2

_swap(a, i, j) == [a EXCEPT ![i + 1] = a[j + 1], ![j + 1] = a[i + 1]]

\* a _compare that also answers True for equal elements
_compare_or_equal(a, isMin, i, j) ==
    IF isMin THEN Get(a, i) <= Get(a, j) ELSE Get(a, i) >= Get(a, j)

\* a _compare that forgets the polarity and always answers for a max-heap
_compare_max(a, isMin, i, j) == Get(a, i) > Get(a, j)

\* True iff the element at index i has strictly higher priority than the one at j
_compare(a, isMin, i, j) ==
    IF isMin THEN Get(a, i) < Get(a, j) ELSE Get(a, i) > Get(a, j)

size(a) == Len(a)

is_empty(a) == Len(a) = 0

---------------------------------------------------------------------------
(* heapify_down, heapify_up, build_heap *)

RECURSIVE heapify_down_leftonly(_, _, _, _)
\* a heapify_down that never looks at the right child
heapify_down_leftonly(a, isMin, index, sz) ==
    LET left == _left(index)
        c1 == IF left < sz /\ _compare(a, isMin, left, index) THEN left ELSE index
    IN  IF c1 # index
        THEN heapify_down_leftonly(_swap(a, index, c1), isMin, c1, sz)
        ELSE a

\* a heapify_down that swaps once and does not go on from the child
heapify_down_once(a, isMin, index, sz) ==
    LET left == _left(index)
        right == _right(index)
        c1 == IF left < sz /\ _compare(a, isMin, left, index) THEN left ELSE index
        cumulative == IF right < sz /\ _compare(a, isMin, right, c1) THEN right ELSE c1
    IN  IF cumulative # index THEN _swap(a, index, cumulative) ELSE a

RECURSIVE heapify_down(_, _, _, _)
heapify_down(a, isMin, index, sz) ==
    LET left == _left(index)
        right == _right(index)
        c1 == IF left < sz /\ _compare(a, isMin, left, index) THEN left ELSE index
        cumulative == IF right < sz /\ _compare(a, isMin, right, c1) THEN right ELSE c1
    IN  IF cumulative # index
        THEN heapify_down(_swap(a, index, cumulative), isMin, cumulative, sz)
        ELSE a

\* an activation of heapify_down that recurses from index again instead of from the child
heapify_down_call_same(a, isMin, index, sz) ==
    LET left == _left(index)
        right == _right(index)
        c1 == IF left < sz /\ _compare(a, isMin, left, index) THEN left ELSE index
        cumulative == IF right < sz /\ _compare(a, isMin, right, c1) THEN right ELSE c1
    IN  IF cumulative # index
        THEN [arr |-> _swap(a, index, cumulative), recurse |-> TRUE, index |-> index]
        ELSE [arr |-> a, recurse |-> FALSE, index |-> index]

\* one activation of heapify_down: the list it leaves, whether it calls
\* itself again and, if so, with which index
heapify_down_call(a, isMin, index, sz) ==
    LET left == _left(index)
        right == _right(index)
        c1 == IF left < sz /\ _compare(a, isMin, left, index) THEN left ELSE index
        cumulative == IF right < sz /\ _compare(a, isMin, right, c1) THEN right ELSE c1
    IN  IF cumulative # index
        THEN [arr |-> _swap(a, index, cumulative), recurse |-> TRUE, index |-> cumulative]
        ELSE [arr |-> a, recurse |-> FALSE, index |-> index]

RECURSIVE heapify_up(_, _, _)
heapify_up(a, isMin, index) ==
    IF index > 0
    THEN LET parent == _parent(index)
         IN  IF _compare(a, isMin, index, parent)
             THEN heapify_up(_swap(a, index, parent), isMin, parent)
             ELSE a
    ELSE a

\* the swaps heapify_up makes, in order: the index it swapped from, the
\* parent it swapped with, and the list after the swap
RECURSIVE heapify_up_steps(_, _, _)
heapify_up_steps(a, isMin, index) ==
    IF index > 0
    THEN LET parent == _parent(index)
         IN  IF _compare(a, isMin, index, parent)
             THEN <<[index |-> index, parent |-> parent, arr |-> _swap(a, index, parent)]>>
                  \o heapify_up_steps(_swap(a, index, parent), isMin, parent)
             ELSE <<>>
    ELSE <<>>

\* the loop of build_heap: for i in range(start_index, -1, -1)
RECURSIVE build_loop(_, _, _)
build_loop(a, isMin, i) ==
    IF i < 0 THEN a
    ELSE build_loop(heapify_down(a, isMin, i, size(a)), isMin, i - 1)

\* the iterations of build_heap's loop from i down, in order: the loop index,
\* the list when heapify_down(i, size) is called and the list when it returns
RECURSIVE build_trace(_, _, _)
build_trace(a, isMin, i) ==
    IF i < 0 THEN <<>>
    ELSE <<[i |-> i, before |-> a, after |-> heapify_down(a, isMin, i, size(a))]>>
         \o build_trace(heapify_down(a, isMin, i, size(a)), isMin, i - 1)

\* a build_heap that always builds a max-heap
build_heap_max(a, isMin) == build_loop(a, FALSE, (size(a) \div 2) - 1)

build_heap(a, isMin) == build_loop(a, isMin, (size(a) \div 2) - 1)

---------------------------------------------------------------------------
(* The public methods, as functions of the array and the polarity *)

\* self._arr = arr: the heap keeps the caller's list itself
list_alias(a) == [val |-> a, same_object |-> TRUE]

\* list(arr): a new list object with the elements of arr, in order
list_(a) == [val |-> a, same_object |-> FALSE]

\* __init__: self._arr = list(arr); self.build_heap()
init(list, isMin) == build_heap(list_(list).val, isMin)

\* `self.is_empty` in peek is the bound method itself, not a call of it:
\* a method object is always true
is_empty_attribute == TRUE

\* a peek whose emptiness test always answers "not empty"
peek_never_empty(a) ==
    IF Len(a) = 0
    THEN [ret |-> None, err |-> "IndexError"]
    ELSE [ret |-> Some(Get(a, 0)), err |-> "none"]

\* return None if self.is_empty else self._arr[0]
\* (reading _arr[0] of the empty list raises IndexError)
peek(a) ==
    IF is_empty_attribute
    THEN [ret |-> None, err |-> "none"]
    ELSE IF Len(a) = 0
         THEN [ret |-> None, err |-> "IndexError"]
         ELSE [ret |-> Some(Get(a, 0)), err |-> "none"]

\* a push that keeps the list duplicate-free
push_unique(a, isMin, value) ==
    IF \E i \in 1..Len(a) : a[i] = value
    THEN a
    ELSE heapify_up(Append(a, value), isMin, Len(a))

push(a, isMin, value) ==
    heapify_up(Append(a, value), isMin, Len(Append(a, value)) - 1)

\* a pop that drops the root and does not sift
pop_nosift(a, isMin) ==
    IF is_empty(a)
    THEN [arr |-> a, ret |-> None, err |-> "IndexError"]
    ELSE [arr |-> DropLast(_swap(a, 0, size(a) - 1)), ret |-> Some(Get(a, 0)), err |-> "none"]

\* a pop that answers None on the empty heap
pop_noraise(a, isMin) ==
    IF is_empty(a)
    THEN [arr |-> a, ret |-> None, err |-> "none"]
    ELSE LET shrunk == DropLast(_swap(a, 0, size(a) - 1))
         IN  [arr |-> IF ~is_empty(shrunk) THEN heapify_down(shrunk, isMin, 0, size(shrunk)) ELSE shrunk,
              ret |-> Some(Get(a, 0)), err |-> "none"]

pop(a, isMin) ==
    IF is_empty(a)
    THEN [arr |-> a, ret |-> None, err |-> "IndexError"]
    ELSE LET root == Get(a, 0)
             lastIndex == size(a) - 1
             shrunk == DropLast(_swap(a, 0, lastIndex))
         IN  [arr |-> IF ~is_empty(shrunk)
                      THEN heapify_down(shrunk, isMin, 0, size(shrunk))
                      ELSE shrunk,
              ret |-> Some(root),
              err |-> "none"]

\* a push_pop that overwrites the root and does not sift
push_pop_nosift(a, isMin, value) ==
    IF is_empty(a)
    THEN [arr |-> push(a, isMin, value), ret |-> Some(value)]
    ELSE IF (isMin /\ value > Get(a, 0)) \/ ~(isMin /\ value < Get(a, 0))
         THEN [arr |-> Set(a, 0, value), ret |-> Some(Get(a, 0))]
         ELSE [arr |-> a, ret |-> Some(value)]

\* a push_pop that, on the empty heap, pushes and pops again
push_pop_then_pop(a, isMin, value) ==
    IF is_empty(a)
    THEN [arr |-> pop(push(a, isMin, value), isMin).arr, ret |-> Some(value)]
    ELSE IF (isMin /\ value > Get(a, 0)) \/ ~(isMin /\ value < Get(a, 0))
         THEN [arr |-> heapify_down(Set(a, 0, value), isMin, 0, size(a)), ret |-> Some(Get(a, 0))]
         ELSE [arr |-> a, ret |-> Some(value)]

\* a push_pop that pops the root and forgets to insert the value
push_pop_pops(a, isMin, value) ==
    IF is_empty(a)
    THEN [arr |-> push(a, isMin, value), ret |-> Some(value)]
    ELSE IF (isMin /\ value > Get(a, 0)) \/ ~(isMin /\ value < Get(a, 0))
         THEN [arr |-> pop(a, isMin).arr, ret |-> Some(Get(a, 0))]
         ELSE [arr |-> a, ret |-> Some(value)]

push_pop(a, isMin, value) ==
    IF is_empty(a)
    THEN [arr |-> push(a, isMin, value), ret |-> Some(value)]
    ELSE LET root == Get(a, 0)
         IN  IF (isMin /\ value > root) \/ ~(isMin /\ value < root)
             THEN [arr |-> heapify_down(Set(a, 0, value), isMin, 0, size(a)),
                   ret |-> Some(root)]
             ELSE [arr |-> a, ret |-> Some(value)]

\* list.index(v): the first zero-based index holding v (raises ValueError when there is none)
contains(a, v) == \E i \in 0..(Len(a) - 1) : Get(a, i) = v
index(a, v) == CHOOSE i \in 0..(Len(a) - 1) :
                   /\ Get(a, i) = v
                   /\ \A j \in 0..(i - 1) : Get(a, j) # v

\* the assignment and the sift of replace, from the index found
replace_at(a, isMin, idx, newValue) ==
    LET b == Set(a, idx, newValue)
        parent == _parent(idx)
    IN  IF idx > 0 /\ _compare(b, isMin, idx, parent)
        THEN heapify_up(b, isMin, idx)
        ELSE heapify_down(b, isMin, idx, size(b))

\* a replace that returns quietly when oldValue is absent
replace_silent(a, isMin, oldValue, newValue) ==
    IF is_empty(a) \/ ~contains(a, oldValue)
    THEN [arr |-> a, err |-> "none"]
    ELSE [arr |-> replace_at(a, isMin, index(a, oldValue), newValue), err |-> "none"]

\* a replace that overwrites every occurrence of oldValue and rebuilds
replace_every(a, isMin, oldValue, newValue) ==
    IF is_empty(a) \/ ~contains(a, oldValue)
    THEN [arr |-> a, err |-> "ValueError"]
    ELSE [arr |-> build_heap([i \in 1..Len(a) |-> IF a[i] = oldValue THEN newValue ELSE a[i]], isMin),
          err |-> "none"]

replace(a, isMin, oldValue, newValue) ==
    IF is_empty(a)
    THEN [arr |-> a, err |-> "ValueError"]
    ELSE IF ~contains(a, oldValue)
         THEN [arr |-> a, err |-> "ValueError"]
         ELSE [arr |-> replace_at(a, isMin, index(a, oldValue), newValue), err |-> "none"]

\* return self._arr: the caller gets the backing list itself
items_live(a) == [val |-> a, same_object |-> TRUE]

\* items: self._arr.copy(), a new list object with the elements in array order
items(a) == [val |-> a, same_object |-> FALSE]

clear(a) == <<>>

---------------------------------------------------------------------------
(* The state machine *)

\* Heap(list, isMin) for any list and either polarity
Init ==
    \E list \in Lists(MaxLen), isMin \in BOOLEAN :
        /\ _arr = init(list, isMin)
        /\ _is_min_heap = isMin
        /\ op = "__init__"
        /\ args = <<isMin>>
        /\ pre = list
        /\ ret = None
        /\ err = "none"
        /\ loaded = init(list, isMin)
        /\ popped = <<>>
        /\ counting = (list = <<>>)
        /\ nPush = 0
        /\ nPop = 0
        /\ shared = (IF list_(list).same_object THEN {"arg"} ELSE {})
        /\ arg_intact = (list_(list).same_object => init(list, isMin) = list)
        /\ items_intact = TRUE
        /\ frame = [index |-> 0, returned |-> TRUE]

\* what a call other than push, pop and peek does to the histories
Reload(a) ==
    /\ loaded' = a
    /\ popped' = <<>>

StopCounting ==
    /\ counting' = FALSE
    /\ nPush' = 0
    /\ nPop' = 0

Called(name, arguments) ==
    /\ op' = name
    /\ args' = arguments
    /\ pre' = _arr
    /\ UNCHANGED <<_is_min_heap, frame>>

\* what a call that leaves self._arr as _arr' does to the lists the caller sees:
\* a list that is the object self._arr changes whenever self._arr does
Seen ==
    /\ arg_intact' = (arg_intact /\ ("arg" \in shared => _arr' = _arr))
    /\ items_intact' = (items_intact /\ ("items" \in shared => _arr' = _arr))
    /\ shared' = shared

Push(value) ==
    /\ Len(_arr) < MaxLen
    /\ counting => nPush < MaxCount
    /\ Called("push", <<value>>)
    /\ _arr' = push(_arr, _is_min_heap, value)
    /\ ret' = None
    /\ err' = "none"
    /\ Reload(_arr')
    /\ nPush' = IF counting THEN nPush + 1 ELSE nPush
    /\ UNCHANGED <<counting, nPop>>
    /\ Seen

Pop ==
    LET r == pop(_arr, _is_min_heap)
    IN  /\ Called("pop", <<>>)
        /\ _arr' = r.arr
        /\ ret' = r.ret
        /\ err' = r.err
        /\ IF r.err = "none"
           THEN /\ popped' = popped \o r.ret
                /\ nPop' = IF counting THEN nPop + 1 ELSE nPop
                /\ UNCHANGED <<loaded, counting, nPush>>
           ELSE /\ UNCHANGED <<loaded, popped>>
                /\ StopCounting
        /\ Seen

Peek ==
    LET r == peek(_arr)
    IN  /\ Called("peek", <<>>)
        /\ ret' = r.ret
        /\ err' = r.err
        /\ UNCHANGED <<_arr, loaded, popped, counting, nPush, nPop>>
        /\ Seen

\* len(heap) / heap.size
Size ==
    /\ Called("size", <<>>)
    /\ ret' = Some(size(_arr))
    /\ err' = "none"
    /\ UNCHANGED <<_arr, loaded, popped, counting, nPush, nPop>>
    /\ Seen

IsEmpty ==
    /\ Called("is_empty", <<>>)
    /\ ret' = Some(is_empty(_arr))
    /\ err' = "none"
    /\ UNCHANGED <<_arr, loaded, popped, counting, nPush, nPop>>
    /\ Seen

PushPop(value) ==
    LET r == push_pop(_arr, _is_min_heap, value)
    IN  /\ Called("push_pop", <<value>>)
        /\ _arr' = r.arr
        /\ ret' = r.ret
        /\ err' = "none"
        /\ Reload(_arr')
        /\ StopCounting
        /\ Seen

Replace(oldValue, newValue) ==
    LET r == replace(_arr, _is_min_heap, oldValue, newValue)
    IN  /\ Called("replace", <<oldValue, newValue>>)
        /\ _arr' = r.arr
        /\ ret' = None
        /\ err' = r.err
        /\ Reload(_arr')
        /\ StopCounting
        /\ Seen

BuildHeap ==
    /\ Called("build_heap", <<>>)
    /\ _arr' = build_heap(_arr, _is_min_heap)
    /\ ret' = None
    /\ err' = "none"
    /\ Reload(_arr')
    /\ StopCounting
    /\ Seen

Clear ==
    /\ Called("clear", <<>>)
    /\ _arr' = clear(_arr)
    /\ ret' = None
    /\ err' = "none"
    /\ Reload(_arr')
    /\ counting' = TRUE
    /\ nPush' = 0
    /\ nPop' = 0
    /\ Seen

\* items(): the caller gets a list; ret is that list
Items ==
    LET r == items(_arr)
    IN  /\ Called("items", <<>>)
        /\ ret' = Some(r.val)
        /\ err' = "none"
        /\ shared' = (shared \ {"items"}) \cup (IF r.same_object THEN {"items"} ELSE {})
        /\ items_intact' = TRUE
        /\ UNCHANGED <<_arr, loaded, popped, counting, nPush, nPop, arg_intact>>

\* the caller empties the list items() just returned (list.clear()); the heap
\* sees the change iff that list is the object self._arr refers to
CallerClears ==
    /\ op = "items"
    /\ op' = "caller_clear"
    /\ args' = <<>>
    /\ pre' = _arr
    /\ _arr' = IF "items" \in shared THEN <<>> ELSE _arr
    /\ ret' = Some(<<>>)
    /\ err' = "none"
    /\ UNCHANGED <<_is_min_heap, loaded, popped, counting, nPush, nPop,
                   shared, arg_intact, items_intact, frame>>

Next ==
    \/ \E value \in Vals : Push(value)
    \/ Pop
    \/ Peek
    \/ Size
    \/ IsEmpty
    \/ \E value \in Vals : PushPop(value)
    \/ \E oldValue \in Vals, newValue \in Vals : Replace(oldValue, newValue)
    \/ BuildHeap
    \/ Clear
    \/ Items
    \/ CallerClears

Spec == Init /\ [][Next]_vars

---------------------------------------------------------------------------
(* heapify_down, one activation at a time *)

\* a call heapify_down(index, size) on any list, with size <= len(list);
\* pre keeps the list and args the arguments of the call
InitDown ==
    \E list \in Lists(MaxLen), isMin \in BOOLEAN :
        \E sz \in 0..Len(list), idx \in 0..MaxLen :
            /\ _arr = list
            /\ _is_min_heap = isMin
            /\ op = "heapify_down"
            /\ args = <<idx, sz>>
            /\ pre = list
            /\ ret = None
            /\ err = "none"
            /\ loaded = <<>>
            /\ popped = <<>>
            /\ counting = FALSE
            /\ nPush = 0
            /\ nPop = 0
            /\ shared = {}
            /\ arg_intact = TRUE
            /\ items_intact = TRUE
            /\ frame = [index |-> idx, returned |-> FALSE]

\* the current activation runs: it returns, or swaps and calls itself
HeapifyDownCall ==
    /\ ~frame.returned
    /\ LET c == heapify_down_call(_arr, _is_min_heap, frame.index, args[2])
       IN  /\ _arr' = c.arr
           /\ frame' = [index |-> c.index, returned |-> ~c.recurse]
    /\ UNCHANGED <<_is_min_heap, op, args, pre, ret, err, loaded, popped,
                   counting, nPush, nPop, shared, arg_intact, items_intact>>

NextDown == HeapifyDownCall

\* the method is synchronous: an activation that was entered runs
SpecDown == InitDown /\ [][NextDown]_vars /\ WF_vars(HeapifyDownCall)

---------------------------------------------------------------------------
(* Vocabulary of the properties *)

\* order(x, y): x has priority over or equal priority to y
order(x, y, isMin) == IF isMin THEN x <= y ELSE x >= y

\* the heap property of the list a
IsHeap(a, isMin) ==
    \A i \in 0..(Len(a) - 1) :
        \A c \in {(2 * i) + 1, (2 * i) + 2} :
            c < Len(a) => order(Get(a, i), Get(a, c), isMin)

\* the number of occurrences of v in a
Count(a, v) == Cardinality({i \in 1..Len(a) : a[i] = v})

Elems(a) == {a[i] : i \in 1..Len(a)}

\* a and b hold the same multiset of values
SameBag(a, b) == \A v \in Elems(a) \cup Elems(b) : Count(a, v) = Count(b, v)

\* a followed by b
Plus(a, b) == a \o b

\* s is non-decreasing (isMin) or non-increasing (otherwise)
Sorted(s, isMin) == \A i \in 1..(Len(s) - 1) : order(s[i], s[i + 1], isMin)

\* the last call was `name` and returned normally
Returned(name) == op = name /\ err = "none"

---------------------------------------------------------------------------
(* C1..C10 *)

\* C1: after construction and after every call of a public method, in either
\* polarity, every element has priority over or equal to each of its children:
\* _arr[i] <= _arr[c] in a min-heap and _arr[i] >= _arr[c] in a max-heap, for
\* every child index c in {2i+1, 2i+2} below the size.
C1_HeapProperty == IsHeap(_arr, _is_min_heap)

\* a sift really happened: a replace moved its new value at least two levels
C1_Witness ==
    /\ Returned("replace")
    /\ Len(_arr) >= 4
    /\ _arr # pre
    /\ Get(_arr, 0) = args[2]
    /\ Get(pre, 0) # args[2] /\ Get(pre, 1) # args[2]
    /\ Get(pre, 3) = args[1]
    /\ Get(pre, 0) # args[1] /\ Get(pre, 1) # args[1] /\ Get(pre, 2) # args[1]

\* C2: the values popped since the heap was loaded come out non-decreasing in
\* a min-heap and non-increasing in a max-heap; together with what is still
\* stored they are the loaded multiset, so once the heap is empty they are a
\* permutation of it.
C2_PopOrdering ==
    /\ Sorted(popped, _is_min_heap)
    /\ SameBag(Plus(popped, _arr), loaded)
    /\ (_arr = <<>> => SameBag(popped, loaded))

\* a heap of at least three elements, not all equal, popped until empty
C2_Witness ==
    /\ Returned("pop")
    /\ _arr = <<>>
    /\ Len(popped) >= 3
    /\ Len(popped) = Len(loaded)
    /\ popped[1] # popped[Len(popped)]
    /\ popped # loaded

\* C3 (as claimed): on a non-empty heap push_pop(v) returns what push(v)
\* followed by pop() returns, and leaves the same multiset, a heap.
C3_PushPopEquivalence ==
    (op = "push_pop" /\ pre # <<>>) =>
        LET two == pop(push(pre, _is_min_heap, args[1]), _is_min_heap)
        IN  /\ ret = two.ret
            /\ SameBag(_arr, two.arr)
            /\ IsHeap(_arr, _is_min_heap)

\* C4 (as claimed): on a non-empty heap peek returns _arr[0], which is the
\* minimum (min-heap) or maximum (max-heap) of the contents, and changes nothing.
C4_PeekReturnsRoot ==
    (op = "peek" /\ pre # <<>>) =>
        /\ ret = Some(Get(pre, 0))
        /\ \A v \in Elems(pre) : order(ret[1], v, _is_min_heap)
        /\ _arr = pre

\* C5 (as claimed): on a non-empty heap, when value has priority over or equal
\* to the root, push_pop(value) returns value and leaves _arr as it was.
C5_PushPopPassThrough ==
    (op = "push_pop" /\ pre # <<>> /\ order(args[1], Get(pre, 0), _is_min_heap)) =>
        /\ ret = Some(args[1])
        /\ _arr = pre

\* C6: a pop made on an empty heap raises IndexError and leaves the list empty
\* and the polarity as it was.
C6_PopEmpty ==
    [][(op' = "pop" /\ _arr = <<>>) =>
            /\ err' = "IndexError"
            /\ ret' = None
            /\ _arr' = <<>>
            /\ _is_min_heap' = _is_min_heap]_vars

\* the second pop of a one-element heap
C6_Witness ==
    /\ op = "pop"
    /\ err = "IndexError"
    /\ pre = <<>>
    /\ Len(loaded) = 1
    /\ popped = loaded

\* C7: replace(oldValue, newValue) raises ValueError whenever oldValue is not
\* in the list, the empty list included, and then leaves the list as it was.
C7_ReplaceNotFound ==
    (op = "replace" /\ args[1] \notin Elems(pre)) =>
        /\ err = "ValueError"
        /\ _arr = pre

\* oldValue is missing from a non-empty heap
C7_Witness ==
    /\ op = "replace"
    /\ Len(pre) >= 2
    /\ args[1] \notin Elems(pre)
    /\ err = "ValueError"

\* C8: a replace(old, new) that succeeds with old # new keeps the size, adds
\* one occurrence of new, removes one occurrence of old, keeps every other
\* value's count and leaves a heap.
C8_ReplaceCounts ==
    (Returned("replace") /\ args[1] # args[2]) =>
        /\ Len(_arr) = Len(pre)
        /\ Count(_arr, args[2]) = Count(pre, args[2]) + 1
        /\ Count(_arr, args[1]) = Count(pre, args[1]) - 1
        /\ \A v \in (Elems(pre) \cup Elems(_arr)) \ {args[1], args[2]} :
               Count(_arr, v) = Count(pre, v)
        /\ IsHeap(_arr, _is_min_heap)

\* old occurs twice, new is already there, and the list was reordered
C8_Witness ==
    /\ Returned("replace")
    /\ args[1] # args[2]
    /\ Count(pre, args[1]) = 2
    /\ Count(pre, args[2]) = 1
    /\ \E i \in 1..Len(pre) : pre[i] # _arr[i] /\ _arr[i] # args[2]

\* C9: peek on an empty heap returns None, raises nothing (a read of _arr[0]
\* of the empty list would raise IndexError) and leaves the list empty.
C9_PeekEmpty ==
    (op = "peek" /\ pre = <<>>) =>
        /\ ret = None
        /\ err = "none"
        /\ _arr = <<>>

C9_Witness ==
    /\ op = "peek"
    /\ pre = <<>>
    /\ ret = None
    /\ popped # <<>>

\* C10: from an empty heap, after n push calls and m pop calls none of which
\* was made on an empty heap, the size is n - m; a push raises the size by one
\* and a successful pop lowers it by one.
C10_SizeConservation ==
    /\ counting => size(_arr) = nPush - nPop
    /\ op = "push" => size(_arr) = size(pre) + 1
    /\ Returned("pop") => size(_arr) = size(pre) - 1

\* four pushes and two pops, interleaved or not
C10_Witness ==
    /\ counting
    /\ nPush >= 4
    /\ nPop >= 2
    /\ size(_arr) >= 2

---------------------------------------------------------------------------
(* C11..C19 *)

\* C11: in every non-empty state the root _arr[0] is the minimum of the stored
\* elements in a min-heap and the maximum in a max-heap, and no step changes
\* the polarity flag.
C11_RootExtreme ==
    /\ [](\A v \in Elems(_arr) : order(Get(_arr, 0), v, _is_min_heap))
    /\ [][_is_min_heap' = _is_min_heap]_vars

\* a min-heap whose new, smaller value went up to the root
C11_Witness ==
    /\ op = "push"
    /\ _is_min_heap
    /\ Len(_arr) >= 4
    /\ Get(_arr, 0) = args[1]
    /\ Get(pre, 0) > args[1]

\* C12: build_heap on a list that is a heap leaves the multiset as it was and
\* the list a heap, and a second build_heap changes nothing more; the same
\* holds of the build_heap of the constructor, on any list.
C12_BuildIdempotent ==
    /\ (op = "build_heap" /\ IsHeap(pre, _is_min_heap)) =>
            /\ SameBag(_arr, pre)
            /\ IsHeap(_arr, _is_min_heap)
            /\ build_heap(_arr, _is_min_heap) = _arr
    /\ op = "__init__" =>
            build_heap(_arr, _is_min_heap) = build_heap(pre, _is_min_heap)

\* build_heap called on a min-heap of four or more values, not all equal
C12_Witness ==
    /\ op = "build_heap"
    /\ _is_min_heap
    /\ Len(pre) >= 4
    /\ IsHeap(pre, _is_min_heap)
    /\ Get(pre, 0) # Get(pre, 3)

C15_PushPopReplacesRoot ==
    (op = "push_pop" /\ pre # <<>> /\ ~order(args[1], Get(pre, 0), _is_min_heap)) =>
        /\ ret = Some(Get(pre, 0))
        /\ size(_arr) = size(pre)
        /\ SameBag(Plus(_arr, <<Get(pre, 0)>>), Plus(pre, <<args[1]>>))
        /\ IsHeap(_arr, _is_min_heap)

\* the value sank below the root of a heap of three or more
C15_Witness ==
    /\ op = "push_pop"
    /\ Len(pre) >= 3
    /\ ~order(args[1], Get(pre, 0), _is_min_heap)
    /\ Get(_arr, 0) # args[1]
    /\ ret = Some(Get(pre, 0))

RECURSIVE InSubtree(_, _)
InSubtree(j, r) ==
    IF j = r THEN TRUE
    ELSE IF j < r THEN FALSE
    ELSE InSubtree((j - 1) \div 2, r)

\* the subtree of a rooted at r satisfies the heap property
SubHeap(a, r, isMin) ==
    \A i \in 0..(Len(a) - 1) :
        InSubtree(i, r) =>
            \A c \in {(2 * i) + 1, (2 * i) + 2} :
                c < Len(a) => order(Get(a, i), Get(a, c), isMin)

\* x has strictly higher priority than y
strictly(x, y, isMin) == IF isMin THEN x < y ELSE x > y

\* C17: in the build_heap of the constructor, on any list of size n, the loop
\* calls heapify_down(i, n) for i = floor(n/2)-1 down to 0; when it is called
\* every subtree rooted at an index j > i is a heap, when it returns the
\* subtree rooted at i is one too (and those at j > i still are); the list
\* after the loop is the heap's list, a heap and a permutation of the input.
C17_BuildLoop ==
    op = "__init__" =>
        LET n == Len(pre)
            T == build_trace(pre, _is_min_heap, (n \div 2) - 1)
        IN  /\ Len(T) = n \div 2
            /\ \A k \in 1..Len(T) :
                   /\ T[k].i = (n \div 2) - k
                   /\ T[k].before = (IF k = 1 THEN pre ELSE T[k - 1].after)
                   /\ \A j \in (T[k].i + 1)..(n - 1) :
                          SubHeap(T[k].before, j, _is_min_heap)
                   /\ \A j \in T[k].i..(n - 1) :
                          SubHeap(T[k].after, j, _is_min_heap)
                   /\ SameBag(T[k].after, pre)
            /\ _arr = (IF Len(T) = 0 THEN pre ELSE T[Len(T)].after)
            /\ IsHeap(_arr, _is_min_heap)
            /\ SameBag(_arr, pre)

\* a list of five whose two loop iterations both moved elements
C17_Witness ==
    /\ op = "__init__"
    /\ Len(pre) >= 5
    /\ LET T == build_trace(pre, _is_min_heap, (Len(pre) \div 2) - 1)
       IN  /\ Len(T) >= 2
           /\ T[1].after # T[1].before
           /\ T[Len(T)].after # T[Len(T)].before
           /\ Get(T[Len(T)].after, 1) # Get(T[Len(T)].before, 0)

\* the indices on the path from the index j up to the root
RECURSIVE PathToRoot(_)
PathToRoot(j) == IF j <= 0 THEN {0} ELSE {j} \cup PathToRoot((j - 1) \div 2)

\* C18: push(value) puts value at the last index and then swaps only along
\* the path from that index to the root: each swap is with the parent of the
\* index the value is at and is made only when value has strictly higher
\* priority than that parent; the walk stops at the root or at the first
\* parent of equal or higher priority; every index off the path keeps its
\* element.
C18_PushPath ==
    op = "push" =>
        LET value == args[1]
            last == Len(pre)
            a0 == Append(pre, value)
            S == heapify_up_steps(a0, _is_min_heap, last)
            stop == IF Len(S) = 0 THEN last ELSE S[Len(S)].parent
        IN  /\ \A k \in 1..Len(S) :
                   LET before == IF k = 1 THEN a0 ELSE S[k - 1].arr
                   IN  /\ S[k].index = (IF k = 1 THEN last ELSE S[k - 1].parent)
                       /\ S[k].parent = (S[k].index - 1) \div 2
                       /\ Get(before, S[k].index) = value
                       /\ strictly(value, Get(before, S[k].parent), _is_min_heap)
                       /\ S[k].arr = [before EXCEPT ![S[k].index + 1] = before[S[k].parent + 1],
                                                    ![S[k].parent + 1] = value]
            /\ _arr = (IF Len(S) = 0 THEN a0 ELSE S[Len(S)].arr)
            /\ Get(_arr, stop) = value
            /\ stop > 0 => ~strictly(value, Get(_arr, (stop - 1) \div 2), _is_min_heap)
            /\ \A i \in 0..last : i \notin PathToRoot(last) => Get(_arr, i) = Get(a0, i)

\* one swap, then a parent of equal priority stopped the walk below the root
C18_Witness ==
    /\ op = "push"
    /\ Len(pre) >= 3
    /\ LET S == heapify_up_steps(Append(pre, args[1]), _is_min_heap, Len(pre))
       IN  /\ Len(S) = 1
           /\ S[1].parent > 0
           /\ Get(_arr, (S[1].parent - 1) \div 2) = args[1]

\* C14: self._arr is never the same object as a list the caller can see; the
\* constructor's argument keeps its contents and order through construction
\* and every later call; items() returns the elements of _arr in array order,
\* no later call changes the list it returned, and a change the caller makes
\* to that list does not change the heap.
C14_NoSharing ==
    /\ shared = {}
    /\ arg_intact
    /\ items_intact
    /\ op = "items" => (ret = Some(pre) /\ _arr = pre)
    /\ op = "caller_clear" => _arr = pre

\* the caller emptied the list items() returned for a heap that is not sorted
C14_Witness ==
    /\ op = "caller_clear"
    /\ Len(_arr) >= 3
    /\ ~Sorted(_arr, TRUE)
    /\ ~Sorted(_arr, FALSE)
    /\ ret = Some(<<>>)

\* the element at index i of a has a child below sz of strictly higher priority
HasBetterChild(a, i, sz, isMin) ==
    \E c \in {(2 * i) + 1, (2 * i) + 2} :
        c < sz /\ strictly(Get(a, c), Get(a, i), isMin)

\* C19: every call heapify_down(index, size) with size <= len(_arr) returns:
\* an activation calls itself only with a strictly larger index, a child of
\* its own index below size; it returns without a swap exactly when its
\* index has no child below size of strictly higher priority; and what the
\* chain of activations leaves is what heapify_down computes.
C19_HeapifyDownTerminates ==
    /\ [][/\ ~frame'.returned =>
                 /\ frame'.index > frame.index
                 /\ frame'.index \in {(2 * frame.index) + 1, (2 * frame.index) + 2}
                 /\ frame'.index < args[2]
          /\ frame'.returned <=> ~HasBetterChild(_arr, frame.index, args[2], _is_min_heap)
          /\ frame'.returned => (_arr' = _arr /\ frame'.index = frame.index)]_vars
    /\ [](frame.returned =>
              _arr = heapify_down(pre, _is_min_heap, args[1], args[2]))
    /\ <>(frame.returned)

\* a call from the root that went down two levels and returned
C19_Witness ==
    /\ op = "heapify_down"
    /\ frame.returned
    /\ args[1] = 0
    /\ frame.index >= 3
    /\ args[2] = Len(_arr)

=============================================================================
